---- MODULE Spec2Model ----
(***************************************************************************)
(* Model of the corpus generator: the corpus driver of                     *)
(* internal/corpus/generator.go (GeneratorCorpus, eventsPayloadFromFields, *)
(* Generate, GenerateWithTemplate, bulkPayloadFilename, sanitizeFilename)  *)
(* and the genlib generator it drives (parseCustomTemplate,                *)
(* NewGeneratorWithCustomTemplate, Emit), as exercised by the genlib tests.*)
(*                                                                         *)
(* Byte strings are sequences of symbols.  A symbol is one character, or   *)
(* one fixed literal of the source written as a single symbol (such as the *)
(* word "alpha"); lengths are counted in symbols.                          *)
(***************************************************************************)
EXTENDS Integers, Sequences, FiniteSets, TLC

\* ------------------------------------------------------------------ bounds

\* Largest number of tokens a template of the parser harness is built from.
MaxTok == 4
\* Largest byte budget (totSize) handed to the corpus driver.
MaxTot == 12
\* Seconds the clock may advance in a driver run.
MaxClock == 1
\* Largest byte budget in the runs of several generations.
MaxTotRepeat == 1
\* Largest number of corpus generations in one driver run.
MaxGens == 2
\* Emit calls of one static-value or empty-case run.
MaxEmits == 2

\* ------------------------------------------------------- program constants

templateTypeCustom == 0
templateTypeGoText == 1
\* The timestamp of TestNewGenerator: the Unix time a driver run starts at.
TestTimestamp == 1647345675
\* nSpins of test_CardinalityTWithCustomTemplate.
NSpins == 16384
\* "range: 10000" of the cardinality test's configuration.
CardinalityRange == 10000
\* Cardinality is per mille.
PerMille == 1000

\* ------------------------------------------------------------ byte strings

\* A nil []byte: the parser's "none".  Bytes(x) is what writing it appends.
None == <<"nil">>
Bytes(x) == IF x = None THEN <<>> ELSE x
\* A fragment as the parser stores it: nil when nothing was accumulated.
Frag(acc) == IF acc = <<>> THEN None ELSE acc

Range(s) == {s[i] : i \in 1..Len(s)}

DigitChar(d) == <<"0", "1", "2", "3", "4", "5", "6", "7", "8", "9">>[d + 1]

\* fmt "%d" / strconv of a natural number.
RECURSIVE Digits(_)
Digits(n) == IF n < 10 THEN <<DigitChar(n)>>
             ELSE Digits(n \div 10) \o <<DigitChar(n % 10)>>

\* --------------------------------------------------------- template parser

\* The opening delimiter "{{." starts at position i of t.
IsOpen(t, i) ==
  /\ i + 2 <= Len(t)
  /\ t[i] = "{"
  /\ t[i + 1] = "{"
  /\ t[i + 2] = "."

\* The first "}" at or after position i of t (Len(t) + 1 when there is none).
RECURSIVE FirstClose(_, _)
FirstClose(t, i) ==
  IF i > Len(t) THEN Len(t) + 1
  ELSE IF t[i] = "}" THEN i
  ELSE FirstClose(t, i + 1)

\* A placeholder {{.<identifier>}} starts at i: the identifier is the run of
\* non-"}" characters after "{{.", not empty, and "}}" terminates it.
IsPlaceholder(t, i) ==
  /\ IsOpen(t, i)
  /\ LET e == FirstClose(t, i + 3)
     IN /\ e > i + 3
        /\ e + 1 <= Len(t)
        /\ t[e + 1] = "}"

PlaceholderName(t, i) == SubSeq(t, i + 3, FirstClose(t, i + 3) - 1)
PlaceholderEnd(t, i) == FirstClose(t, i + 3) + 1

\* The scan with the accumulator left as it is after a placeholder.
RECURSIVE scanTemplateKeepsLiteral(_, _, _, _, _)
scanTemplateKeepsLiteral(t, i, acc, flds, pm) ==
  IF i > Len(t)
  THEN [orderedFields |-> flds, prefixByField |-> pm, trailing |-> Frag(acc)]
  ELSE IF IsPlaceholder(t, i)
  THEN LET name == PlaceholderName(t, i)
       IN scanTemplateKeepsLiteral(t, PlaceholderEnd(t, i) + 1, acc,
                                   Append(flds, name),
                                   (name :> Frag(acc)) @@ pm)
  ELSE scanTemplateKeepsLiteral(t, i + 1, Append(acc, t[i]), flds, pm)

\* One step of the scan at cursor i with the literal accumulator acc: a
\* placeholder closes acc off as the prefix of its identifier and appends the
\* identifier; any other character is kept in the current fragment.
RECURSIVE scanTemplate(_, _, _, _, _)
scanTemplate(t, i, acc, flds, pm) ==
  IF i > Len(t)
  THEN [orderedFields |-> flds, prefixByField |-> pm, trailing |-> Frag(acc)]
  ELSE IF IsPlaceholder(t, i)
  THEN LET name == PlaceholderName(t, i)
       IN scanTemplate(t, PlaceholderEnd(t, i) + 1, <<>>,
                       Append(flds, name), (name :> Frag(acc)) @@ pm)
  ELSE scanTemplate(t, i + 1, Append(acc, t[i]), flds, pm)

EmptyMap == [x \in {} |-> None]

parseCustomTemplate(t) == scanTemplate(t, 1, <<>>, <<>>, EmptyMap)

\* ------------------------------------------------- fields and configuration

\* Field.Value / a configuration `value`: absent, a string, a number, a bool,
\* or a value that cannot be coerced (kind "bad").
NoValue == [k |-> "none", s |-> <<>>, n |-> 0, b |-> FALSE]
StrValue(s) == [k |-> "str", s |-> s, n |-> 0, b |-> FALSE]
NumValue(n) == [k |-> "num", s |-> <<>>, n |-> n, b |-> FALSE]
BoolValue(b) == [k |-> "bool", s |-> <<>>, n |-> 0, b |-> b]
BadValue == [k |-> "bad", s |-> <<>>, n |-> 0, b |-> FALSE]

Field(name, type, value) == [name |-> name, type |-> type, value |-> value]

\* One configuration entry; cardinality 0 and range 0 mean "not configured".
CfgEntry(cardinality, range, value) ==
  [cardinality |-> cardinality, range |-> range, value |-> value]
NoCfgEntry == CfgEntry(0, 0, NoValue)
NoConfig == [x \in {} |-> NoCfgEntry]

\* Config.GetField: the entry of a field name, if there is one.
GetField(cfg, name) == IF name \in DOMAIN cfg THEN cfg[name] ELSE NoCfgEntry

SupportedTypes ==
  {"keyword", "constant_keyword", "bool", "integer", "long", "unsigned_long",
   "float", "double", "half_float", "scaled_float", "ip", "geo_point", "date"}

\* ------------------------------------------------------- value synthesizer

NoErr == "nil"
ConfigurationError == "ConfigurationError"
SynthesisError == "SynthesisError"
WriteError == "WriteError"
ErrNotValidTemplate == "ErrNotValidTemplate"

\* The serialized form of a static value (string quoted, number and bool bare).
Serialize(v) ==
  CASE v.k = "str" -> <<"\"">> \o v.s \o <<"\"">>
    [] v.k = "num" -> Digits(v.n)
    [] v.k = "bool" -> IF v.b THEN <<"true">> ELSE <<"false">>
    [] OTHER -> <<>>

\* The static value of a field: the configuration's `value` overrides
\* Field.Value.
StaticOf(f, cfg) ==
  IF GetField(cfg, f.name).value # NoValue THEN GetField(cfg, f.name).value
  ELSE f.value

\* The k-th value of a type's generation domain, serialized.
BaseValue(type, k) ==
  CASE type \in {"integer", "long", "unsigned_long"} -> Digits(k)
    [] type \in {"float", "double", "half_float", "scaled_float"} ->
         Digits(k) \o <<".", "5">>
    [] type = "bool" -> IF k % 2 = 0 THEN <<"false">> ELSE <<"true">>
    [] type = "ip" ->
         <<"10", ".", "0", ".">> \o Digits((k \div 256) % 256)
           \o <<".">> \o Digits(k % 256)
    [] type = "geo_point" ->
         Digits(k % 91) \o <<".", "0", ",">> \o Digits((k \div 91) % 181)
           \o <<".", "0">>
    [] type = "date" -> <<"now+">> \o Digits(k) \o <<"s">>
    [] OTHER -> <<"word">> \o Digits(k)

\* `range` bounds the magnitude of a draw.
Bounded(k, range) == IF range > 0 THEN k % range ELSE k

\* The value the pool of a cardinality-controlled field holds at index idx.
PoolValue(type, idx, range) == BaseValue(type, Bounded(idx, range))

\* Pool size of a per-mille cardinality.
PoolSize(cardinality) == PerMille \div cardinality

\* What the shared random source may return for one draw.
RandomDraws == {0, 1}

NewGenState == [cursor |-> [x \in {} |-> 0]]
CursorOf(st, name) == IF name \in DOMAIN st.cursor THEN st.cursor[name] ELSE 0

\* A cursor that skips every other index.
NextCursorSkips(c) == c + 2

\* The cursor of a cardinality-controlled field after one emission.
NextCursor(c) == c + 1

\* A synthesizer that looks at the cardinality before the static value.
SynthCardinalityFirst(f, cfg, st) ==
  LET c == GetField(cfg, f.name)
      v == StaticOf(f, cfg)
  IN IF c.cardinality > 0
     THEN {[bytes |-> PoolValue(f.type,
                                CursorOf(st, f.name) % PoolSize(c.cardinality),
                                c.range),
            st |-> [cursor |-> (f.name :> NextCursor(CursorOf(st, f.name)))
                                 @@ st.cursor],
            err |-> NoErr]}
     ELSE IF v # NoValue
     THEN {[bytes |-> Serialize(v), st |-> st, err |-> NoErr]}
     ELSE {[bytes |-> BaseValue(f.type, Bounded(r, c.range)), st |-> st,
            err |-> NoErr] : r \in RandomDraws}

\* One value of field f: the outcomes (bytes written, state after, error).
Synth(f, cfg, st) ==
  LET c == GetField(cfg, f.name)
      v == StaticOf(f, cfg)
  IN IF v # NoValue
     THEN IF v.k = "bad"
          THEN {[bytes |-> <<>>, st |-> st, err |-> SynthesisError]}
          ELSE {[bytes |-> Serialize(v), st |-> st, err |-> NoErr]}
     ELSE IF c.cardinality > 0
     THEN {[bytes |-> PoolValue(f.type,
                                CursorOf(st, f.name) % PoolSize(c.cardinality),
                                c.range),
            st |-> [cursor |-> (f.name :> NextCursor(CursorOf(st, f.name)))
                                 @@ st.cursor],
            err |-> NoErr]}
     ELSE {[bytes |-> BaseValue(f.type, Bounded(r, c.range)), st |-> st,
            err |-> NoErr] : r \in RandomDraws}

\* ---------------------------------------------------------------- generator

NoGen == [kind |-> "none", orderedFields |-> <<>>, prefixByField |-> EmptyMap,
          trailing |-> None, fields |-> <<>>]

Names(fields) == {fields[i].name : i \in 1..Len(fields)}

\* The declared field of a name (the first one declared with it).
FieldNamed(fields, name) ==
  fields[CHOOSE i \in 1..Len(fields) :
           /\ fields[i].name = name
           /\ \A j \in 1..(i - 1) : fields[j].name # name]

\* The compiled plan of a template, or a configuration error: the template
\* references an undeclared field, or a declared field has an unknown type.
CompileTemplate(kind, template, cfg, fields) ==
  LET p == parseCustomTemplate(template)
  IN IF \/ \E n \in Range(p.orderedFields) : n \notin Names(fields)
        \/ \E i \in 1..Len(fields) : fields[i].type \notin SupportedTypes
     THEN [gen |-> NoGen, err |-> ConfigurationError]
     ELSE [gen |-> [kind |-> kind, orderedFields |-> p.orderedFields,
                    prefixByField |-> p.prefixByField,
                    trailing |-> p.trailing, fields |-> fields],
           err |-> NoErr]

NewGeneratorWithCustomTemplate(template, cfg, fields) ==
  CompileTemplate("custom", template, cfg, fields)

\* A comment action of the text-template engine, kept as one symbol.
TextComment == "{{/* */}}"

\* The text-template engine renders nothing for a comment action.
DropComments(t) == SelectSeq(t, LAMBDA c : c # TextComment)

NewGeneratorWithTextTemplate(template, cfg, fields) ==
  CompileTemplate("gotext", DropComments(template), cfg, fields)

\* The flat key/value template of the no-template path: empty for no field.
RECURSIVE FlatMembers(_, _)
FlatMembers(fields, i) ==
  IF i > Len(fields) THEN <<>>
  ELSE (IF i > 1 THEN <<",">> ELSE <<>>)
       \o <<"\"">> \o fields[i].name \o <<"\"", ":", "{", "{", ".">>
       \o fields[i].name \o <<"}", "}">> \o FlatMembers(fields, i + 1)

generateCustomTemplateFromField(cfg, fields) ==
  IF fields = <<>> THEN <<>>
  ELSE <<"{">> \o FlatMembers(fields, 1) \o <<"}">>

NewGeneratorNoTemplate(cfg, fields) ==
  NewGeneratorWithCustomTemplate(generateCustomTemplateFromField(cfg, fields),
                                 cfg, fields)

\* An Emit that ends every record with a newline of its own.
RECURSIVE emitFromNewline(_, _, _, _, _, _)
emitFromNewline(gen, cfg, i, out, vals, st) ==
  IF i > Len(gen.orderedFields)
  THEN {[out |-> out \o Bytes(gen.trailing) \o <<"\n">>, vals |-> vals,
         st |-> st, err |-> NoErr]}
  ELSE LET name == gen.orderedFields[i]
           pre == out \o Bytes(gen.prefixByField[name])
       IN UNION {IF o.err # NoErr
                 THEN {[out |-> pre, vals |-> vals, st |-> o.st, err |-> o.err]}
                 ELSE emitFromNewline(gen, cfg, i + 1, pre \o o.bytes,
                                      Append(vals, o.bytes), o.st)
                 : o \in Synth(FieldNamed(gen.fields, name), cfg, st)}

\* Emit from the i-th ordered field on: out is what this Emit has written so
\* far, vals the values it has synthesized.  A failed synthesis ends it.
RECURSIVE emitFrom(_, _, _, _, _, _)
emitFrom(gen, cfg, i, out, vals, st) ==
  IF i > Len(gen.orderedFields)
  THEN {[out |-> out \o Bytes(gen.trailing), vals |-> vals, st |-> st,
         err |-> NoErr]}
  ELSE LET name == gen.orderedFields[i]
           pre == out \o Bytes(gen.prefixByField[name])
       IN UNION {IF o.err # NoErr
                 THEN {[out |-> pre, vals |-> vals, st |-> o.st, err |-> o.err]}
                 ELSE emitFrom(gen, cfg, i + 1, pre \o o.bytes,
                               Append(vals, o.bytes), o.st)
                 : o \in Synth(FieldNamed(gen.fields, name), cfg, st)}

\* Generator.Emit: the possible outcomes of rendering one record.
Emit(gen, cfg, st) == emitFrom(gen, cfg, 1, <<>>, <<>>, st)

\* -------------------------------------------------------------------- state

VARIABLES
  pc,         \* position of the run
  template,   \* the template bytes handed to the generator
  fields,     \* the declared fields
  config,     \* the field configuration
  parsed,     \* result of parseCustomTemplate (Test_ParseTemplate)
  evgen,      \* the generator constructed
  genErr,     \* the error of its construction
  state,      \* the GenState
  sink,       \* the buffer of the last Emit
  vals,       \* the values the last Emit synthesized, in order
  emitErr,    \* the error of the last Emit
  nEmits,     \* Emit calls so far
  vmap,       \* the distinct records emitted so far
  spins,      \* Emit calls the run performs
  ctor,       \* the constructor called and its template type selector
  gc,         \* the GeneratorCorpus it returned
  gcErr,      \* the error it returned
  clock,      \* time.Now().Unix()
  files,      \* the file system: path -> content
  opened,     \* the payload files opened so far, one per generation
  via,        \* the entry point of the current generation
  totSize,    \* the byte budget of the current call
  createPayload, \* its createPayload argument
  buf,        \* its buffer
  currentSize,   \* its currentSize
  fname,      \* the path of the file it writes
  nWrites,    \* its successful file writes
  sizes,      \* the length of each unit it wrote
  closed,     \* evgen.Close has been called
  ret,        \* what the last finished generation returned
  limits      \* the run's bounds: generations, and byte budget

\* The variables of the genlib test harness alone, and of the driver alone.
hvars == <<parsed, sink, vals, vmap, spins>>
dvars == <<ctor, gc, gcErr, clock, files, opened, via, totSize, createPayload,
           buf, currentSize, fname, nWrites, sizes, closed, ret, limits>>

vars == <<pc, template, fields, config, parsed, evgen, genErr, state, sink,
          vals, emitErr, nEmits, vmap, spins, ctor, gc, gcErr, clock, files,
          opened, via, totSize, createPayload, buf, currentSize, fname,
          nWrites, sizes, closed, ret, limits>>

NoParse == [orderedFields |-> <<>>, prefixByField |-> EmptyMap,
            trailing |-> None]

\* ------------------------------------------------------ genlib test harness

\* Test_ParseTemplate: parse the template.
ParseTemplate ==
  /\ pc = "init"
  /\ parsed' = parseCustomTemplate(template)
  /\ pc' = "parsed"
  /\ UNCHANGED <<template, fields, config, evgen, genErr, state, sink, vals,
                 emitErr, nEmits, vmap, spins>>
  /\ UNCHANGED dvars

\* makeGeneratorWithCustomTemplate: construct the generator and a GenState.
MakeGenerator ==
  /\ pc = "init"
  /\ LET r == NewGeneratorWithCustomTemplate(template, config, fields)
     IN /\ evgen' = r.gen
        /\ genErr' = r.err
        /\ pc' = IF r.err = NoErr THEN "built" ELSE "failed"
  /\ state' = NewGenState
  /\ UNCHANGED <<template, fields, config, parsed, sink, vals, emitErr,
                 nEmits, vmap, spins>>
  /\ UNCHANGED dvars

\* One g.Emit(state, &buf) into a fresh buffer; a failed Emit ends the test.
HarnessEmit ==
  /\ pc = "built"
  /\ nEmits < spins
  /\ emitErr = NoErr
  /\ \E o \in Emit(evgen, config, state) :
       /\ sink' = o.out
       /\ vals' = o.vals
       /\ state' = o.st
       /\ emitErr' = o.err
       /\ vmap' = IF o.err = NoErr THEN vmap \cup {o.out} ELSE vmap
  /\ nEmits' = nEmits + 1
  /\ UNCHANGED <<pc, template, fields, config, parsed, evgen, genErr, spins>>
  /\ UNCHANGED dvars

HarnessNext == ParseTemplate \/ MakeGenerator \/ HarnessEmit

\* The GeneratorCorpus{} zero value.
ZeroGeneratorCorpus ==
  [config |-> NoConfig, fs |-> "nil", location |-> <<>>,
   templateType |-> 0, timestamp |-> "nil"]

\* What a generation returned: the path and error of Generate, and the error
\* of its call of eventsPayloadFromFields ("none": not called, or not returned).
NoRet == [path |-> <<>>, err |-> NoErr, events |-> "none"]

\* The driver's variables before any constructor has run.
DriverIdle ==
  /\ ctor = [name |-> "none", templateType |-> ""]
  /\ gc = ZeroGeneratorCorpus
  /\ gcErr = NoErr
  /\ files = [x \in {} |-> <<>>]
  /\ opened = <<>>
  /\ via = "none"
  /\ totSize = 0
  /\ createPayload = <<>>
  /\ buf = <<>>
  /\ currentSize = 0
  /\ fname = <<>>
  /\ nWrites = 0
  /\ sizes = <<>>
  /\ closed = FALSE
  /\ ret = NoRet

HarnessInit ==
  /\ pc = "init"
  /\ DriverIdle
  /\ clock = 0
  /\ limits = [gens |-> 0, tot |-> 0]
  /\ parsed = NoParse
  /\ evgen = NoGen
  /\ genErr = NoErr
  /\ state = NewGenState
  /\ sink = <<>>
  /\ vals = <<>>
  /\ emitErr = NoErr
  /\ nEmits = 0
  /\ vmap = {}

\* Templates of the parser harness: up to MaxTok tokens, each a placeholder or
\* one character.
Tokens ==
  {<<"{", "{", ".", "a", "}", "}">>, <<"{", "{", ".", "b", "}", "}">>,
   <<"x">>, <<"{">>, <<"}">>, <<".">>, <<"a">>}

RECURSIVE TemplatesOf(_)
TemplatesOf(n) ==
  IF n = 0 THEN {<<>>}
  ELSE TemplatesOf(n - 1) \cup {t \o k : t \in TemplatesOf(n - 1), k \in Tokens}

NameA == <<"a">>
NameB == <<"b">>

ParseFieldLists ==
  {<<>>, <<Field(NameA, "keyword", NoValue)>>,
   <<Field(NameA, "keyword", NoValue), Field(NameB, "integer", NoValue)>>}

\* The cases of Test_ParseTemplate: the template, the expected ordered fields,
\* the expected keys of the prefix map and the expected trailing bytes.
ParseFixtures ==
  <<
   [template |-> <<"no field">>,
    orderedFields |-> <<>>,
    keys |-> {},
    trailing |-> <<"no field">>],
   [template |-> <<"{", "{", ".", "aField", "}", "}">>,
    orderedFields |-> <<<<"aField">>>>,
    keys |-> {<<"aField">>},
    trailing |-> <<>>],
   [template |-> <<"{", "{", ".", "aField", "}", "}", " ", "{", "{", ".", "anotherField", "}", "}">>,
    orderedFields |-> <<<<"aField">>, <<"anotherField">>>>,
    keys |-> {<<"aField">>, <<"anotherField">>},
    trailing |-> <<>>],
   [template |-> <<"with prefix ", "{", "{", ".", "aField", "}", "}", " ", "{", "{", ".", "anotherField", "}", "}">>,
    orderedFields |-> <<<<"aField">>, <<"anotherField">>>>,
    keys |-> {<<"aField">>, <<"anotherField">>},
    trailing |-> <<>>],
   [template |-> <<"{", "{", ".", "aField", "}", "}", " ", "{", "{", ".", "anotherField", "}", "}", " with trailing">>,
    orderedFields |-> <<<<"aField">>, <<"anotherField">>>>,
    keys |-> {<<"aField">>, <<"anotherField">>},
    trailing |-> <<" with trailing">>],
   [template |-> <<"with prefix ", "{", "{", ".", "aField", "}", "}", " ", "{", "{", ".", "anotherField", "}", "}", " and trailing">>,
    orderedFields |-> <<<<"aField">>, <<"anotherField">>>>,
    keys |-> {<<"aField">>, <<"anotherField">>},
    trailing |-> <<" and trailing">>],
   [template |-> <<"{", "{", ".", "aField", "}", "}", " with ", "{", " in the middle ", "{", "{", ".", "anotherField", "}", "}">>,
    orderedFields |-> <<<<"aField">>, <<"anotherField">>>>,
    keys |-> {<<"aField">>, <<"anotherField">>},
    trailing |-> <<>>],
   [template |-> <<"{", " with curly brace as prefix ", "{", "{", ".", "aField", "}", "}", " ", "{", "{", ".", "anotherField", "}", "}">>,
    orderedFields |-> <<<<"aField">>, <<"anotherField">>>>,
    keys |-> {<<"aField">>, <<"anotherField">>},
    trailing |-> <<>>],
   [template |-> <<"{", " with curly brace as prefix ", "{", "{", ".", "aField", "}", "}", " and ", "{", " in the middle ", "{", "{", ".", "anotherField", "}", "}">>,
    orderedFields |-> <<<<"aField">>, <<"anotherField">>>>,
    keys |-> {<<"aField">>, <<"anotherField">>},
    trailing |-> <<>>],
   [template |-> <<"{", " with curly brace as prefix ", "{", "{", ".", "aField", "}", "}", " ", "{", "{", ".", "anotherField", "}", "}", " and trailing">>,
    orderedFields |-> <<<<"aField">>, <<"anotherField">>>>,
    keys |-> {<<"aField">>, <<"anotherField">>},
    trailing |-> <<" and trailing">>],
   [template |-> <<"{", " with curly brace as prefix ", "{", "{", ".", "aField", "}", "}", " and ", "{", " in the middle ", "{", "{", ".", "anotherField", "}", "}", " and trailing">>,
    orderedFields |-> <<<<"aField">>, <<"anotherField">>>>,
    keys |-> {<<"aField">>, <<"anotherField">>},
    trailing |-> <<" and trailing">>],
   [template |-> <<"{", " with curly brace as prefix ", "{", "{", ".", "aField", "}", "}", " ", "{", "{", ".", "anotherField", "}", "}", " and ", "{", " curly brace in trailing">>,
    orderedFields |-> <<<<"aField">>, <<"anotherField">>>>,
    keys |-> {<<"aField">>, <<"anotherField">>},
    trailing |-> <<" and ", "{", " curly brace in trailing">>],
   [template |-> <<"{", " with curly brace as prefix ", "{", "{", ".", "aField", "}", "}", " and ", "{", " in the middle ", "{", "{", ".", "anotherField", "}", "}", " and ", "{", " curly brace in trailing">>,
    orderedFields |-> <<<<"aField">>, <<"anotherField">>>>,
    keys |-> {<<"aField">>, <<"anotherField">>},
    trailing |-> <<" and ", "{", " curly brace in trailing">>],
   [template |-> <<"{", " with curly brace as prefix ", "{", "{", ".", "aField", "}", "}", " ", "{", "{", ".", "anotherField", "}", "}", " and ", "{", " curly brace in trailing with again ", "{", " curly brace in trailing">>,
    orderedFields |-> <<<<"aField">>, <<"anotherField">>>>,
    keys |-> {<<"aField">>, <<"anotherField">>},
    trailing |-> <<" and ", "{", " curly brace in trailing with again ", "{", " curly brace in trailing">>],
   [template |-> <<"{", " with curly brace as prefix ", "{", "{", ".", "aField", "}", "}", " and ", "{", " in the middle ", "{", "{", ".", "anotherField", "}", "}", " and ", "{", " curly brace in trailing with again ", "{", " curly brace in trailing">>,
    orderedFields |-> <<<<"aField">>, <<"anotherField">>>>,
    keys |-> {<<"aField">>, <<"anotherField">>},
    trailing |-> <<" and ", "{", " curly brace in trailing with again ", "{", " curly brace in trailing">>],
   [template |-> <<"{", "{", "{", ".", "aField", "}", "}", " with curly brace as prefix just before a field ", "{", "{", ".", "anotherField", "}", "}", " and trailing">>,
    orderedFields |-> <<<<"aField">>, <<"anotherField">>>>,
    keys |-> {<<"aField">>, <<"anotherField">>},
    trailing |-> <<" and trailing">>],
   [template |-> <<"{", "{", "{", ".", "aField", "}", "}", " with curly brace as prefix just before a field and ", "{", " in the middle ", "{", "{", ".", "anotherField", "}", "}", " and trailing">>,
    orderedFields |-> <<<<"aField">>, <<"anotherField">>>>,
    keys |-> {<<"aField">>, <<"anotherField">>},
    trailing |-> <<" and trailing">>],
   [template |-> <<"{", "{", "{", ".", "aField", "}", "}", " with curly brace as prefix just before a field ", "{", "{", ".", "anotherField", "}", "}", " and ", "{", " curly brace in trailing">>,
    orderedFields |-> <<<<"aField">>, <<"anotherField">>>>,
    keys |-> {<<"aField">>, <<"anotherField">>},
    trailing |-> <<" and ", "{", " curly brace in trailing">>],
   [template |-> <<"{", "{", "{", ".", "aField", "}", "}", " with curly brace as prefix just before a field and ", "{", " in the middle ", "{", "{", ".", "anotherField", "}", "}", " and ", "{", " curly brace in trailing">>,
    orderedFields |-> <<<<"aField">>, <<"anotherField">>>>,
    keys |-> {<<"aField">>, <<"anotherField">>},
    trailing |-> <<" and ", "{", " curly brace in trailing">>],
   [template |-> <<"{", "{", "{", ".", "aField", "}", "}", " with curly brace as prefix just before a field ", "{", "{", ".", "anotherField", "}", "}", " and ", "{", " curly brace in trailing with again ", "{", " curly brace in trailing">>,
    orderedFields |-> <<<<"aField">>, <<"anotherField">>>>,
    keys |-> {<<"aField">>, <<"anotherField">>},
    trailing |-> <<" and ", "{", " curly brace in trailing with again ", "{", " curly brace in trailing">>],
   [template |-> <<"{", "{", "{", ".", "aField", "}", "}", " with curly brace as prefix just before a field and ", "{", " in the middle ", "{", "{", ".", "anotherField", "}", "}", " and ", "{", " curly brace in trailing with again ", "{", " curly brace in trailing">>,
    orderedFields |-> <<<<"aField">>, <<"anotherField">>>>,
    keys |-> {<<"aField">>, <<"anotherField">>},
    trailing |-> <<" and ", "{", " curly brace in trailing with again ", "{", " curly brace in trailing">>]
  >>

FixtureTemplates == {ParseFixtures[i].template : i \in 1..Len(ParseFixtures)}

InitParse ==
  /\ HarnessInit
  /\ template \in TemplatesOf(MaxTok) \cup FixtureTemplates
  /\ fields \in ParseFieldLists
  /\ config = NoConfig
  /\ spins = IF template = <<>> THEN MaxEmits ELSE 1

SpecParse == InitParse /\ [][HarnessNext]_vars

\* ------------------------------------------------------ claims on the parser

\* The placeholders of t read declaratively: the leftmost placeholder at or
\* after a position, then the leftmost one after its end, and so on.
HasPlaceholderFrom(t, from) == \E p \in from..Len(t) : IsPlaceholder(t, p)

LeftmostFrom(t, from) ==
  CHOOSE p \in from..Len(t) :
    /\ IsPlaceholder(t, p)
    /\ \A q \in from..(p - 1) : ~IsPlaceholder(t, q)

RECURSIVE StartsFrom(_, _)
StartsFrom(t, from) ==
  IF ~HasPlaceholderFrom(t, from) THEN <<>>
  ELSE LET p == LeftmostFrom(t, from)
       IN <<p>> \o StartsFrom(t, PlaceholderEnd(t, p) + 1)

Starts(t) == StartsFrom(t, 1)

\* Where the literal before the k-th placeholder begins, and where the text
\* after the last placeholder begins.
LiteralStart(t, k) ==
  IF k = 1 THEN 1 ELSE PlaceholderEnd(t, Starts(t)[k - 1]) + 1
TrailingStart(t) == LiteralStart(t, Len(Starts(t)) + 1)

NoDuplicates(s) == \A i, j \in 1..Len(s) : s[i] = s[j] => i = j

\* C2: parseCustomTemplate returns the identifiers of the placeholders in order
\* of appearance, a prefix map keyed by exactly those identifiers, each
\* identifier's prefix being the literal text (lone "{" included) before its
\* last placeholder, and the text after the last placeholder as trailing, nil
\* when empty; with no placeholder the field list is empty and the whole input
\* is the trailing; the fixtures of Test_ParseTemplate parse as expected.
C2_ParseResult ==
  pc = "parsed" =>
    LET st == Starts(template)
        of == parsed.orderedFields
    IN /\ Len(of) = Len(st)
       /\ \A k \in 1..Len(st) : of[k] = PlaceholderName(template, st[k])
       /\ DOMAIN parsed.prefixByField = Range(of)
       /\ \A k \in 1..Len(st) :
            (\A m \in (k + 1)..Len(st) : of[m] # of[k]) =>
              parsed.prefixByField[of[k]]
                = Frag(SubSeq(template, LiteralStart(template, k), st[k] - 1))
       /\ parsed.trailing
            = Frag(SubSeq(template, TrailingStart(template), Len(template)))
       /\ st = <<>> => of = <<>> /\ Bytes(parsed.trailing) = template
       /\ \A i \in 1..Len(ParseFixtures) :
            template = ParseFixtures[i].template =>
              /\ of = ParseFixtures[i].orderedFields
              /\ DOMAIN parsed.prefixByField = ParseFixtures[i].keys
              /\ Bytes(parsed.trailing) = ParseFixtures[i].trailing

\* C2 witness: "{{{.a}}" is parsed and its first "{" is the prefix of a.
C2_Witness ==
  /\ pc = "parsed"
  /\ template = <<"{", "{", "{", ".", "a", "}", "}">>
  /\ parsed.orderedFields = <<NameA>>
  /\ parsed.prefixByField[NameA] = <<"{">>
  /\ parsed.trailing = None

\* C7: orderedFields has no duplicates and its elements are the keys of the
\* prefix map, also when a field is referenced by more than one placeholder.
C7_OrderedFieldsUnique ==
  pc = "parsed" =>
    /\ NoDuplicates(parsed.orderedFields)
    /\ Range(parsed.orderedFields) = DOMAIN parsed.prefixByField

\* The record the template describes: every placeholder replaced, in order, by
\* the next of the values vs.
RECURSIVE Substitute(_, _, _, _)
Substitute(t, k, vs, from) ==
  IF k > Len(Starts(t)) THEN SubSeq(t, from, Len(t))
  ELSE SubSeq(t, from, Starts(t)[k] - 1) \o vs[k]
       \o Substitute(t, k + 1, vs, PlaceholderEnd(t, Starts(t)[k]) + 1)

RECURSIVE PrefixedValues(_, _, _)
PrefixedValues(gen, vs, k) ==
  IF k > Len(gen.orderedFields) THEN <<>>
  ELSE Bytes(gen.prefixByField[gen.orderedFields[k]]) \o vs[k]
       \o PrefixedValues(gen, vs, k + 1)

Emitted == pc = "built" /\ nEmits > 0 /\ emitErr = NoErr

\* C10: one Emit on the custom-template path writes each ordered field's prefix
\* followed by its value, then the trailing fragment, and nothing else: the
\* record is the template with every placeholder replaced by a value of its
\* field.
C10_RecordIsTemplate ==
  Emitted =>
    /\ Len(vals) = Len(evgen.orderedFields)
    /\ sink = PrefixedValues(evgen, vals, 1) \o Bytes(evgen.trailing)
    /\ sink = Substitute(template, 1, vals, 1)

\* C6: zero fields and an empty custom template construct a generator without
\* error, and every Emit on it succeeds and writes zero bytes.
C6_EmptyCase ==
  (template = <<>> /\ fields = <<>> /\ pc # "init" /\ pc # "parsed") =>
    /\ pc = "built"
    /\ genErr = NoErr
    /\ emitErr = NoErr
    /\ sink = <<>>

\* C6 witness: an Emit on the generator of the empty case has returned.
C6_Witness ==
  /\ template = <<>>
  /\ fields = <<>>
  /\ pc = "built"
  /\ nEmits > 0
  /\ sink = <<>>

\* ------------------------------------------- cardinality and static values

Alpha == <<"alpha">>

\* {"alpha":{{.alpha}}} for the numeric types, {"alpha":"{{.alpha}}"} otherwise.
AlphaTemplate(quoted) ==
  <<"{", "\"", "alpha", "\"", ":">> \o (IF quoted THEN <<"\"">> ELSE <<>>)
    \o <<"{", "{", ".", "alpha", "}", "}">>
    \o (IF quoted THEN <<"\"">> ELSE <<>>) \o <<"}">>

\* The types Test_CardinalityWithCustomTemplate runs, and the cardinalities its
\* loop visits.
CardinalityTypes == {"keyword", "integer", "float", "geo_point", "ip", "date"}
Cardinalities == {1000, 100, 10}

\* "- name: alpha\n  cardinality: %d\n  range: 10000"
CardinalityConfig(c) == Alpha :> CfgEntry(c, CardinalityRange, NoValue)

InitCard ==
  /\ HarnessInit
  /\ \E ty \in CardinalityTypes, c \in Cardinalities :
       /\ template = AlphaTemplate(ty \notin {"integer", "float"})
       /\ fields = <<Field(Alpha, ty, NoValue)>>
       /\ config = CardinalityConfig(c)
  /\ spins = NSpins

SpecCard == InitCard /\ [][HarnessNext]_vars

\* C1: once the pool of a field of cardinality C has been cycled through, in
\* particular after the N = 16384 Emit calls of the test, the distinct values
\* emitted for the field are exactly 1000/C.
C1_CardinalityLaw ==
  (pc = "built" /\ nEmits >= PoolSize(config[Alpha].cardinality)) =>
    Cardinality(vmap) = PerMille \div config[Alpha].cardinality

\* C1 witness: the 16384 spins of a field of cardinality 10 have emitted 100
\* distinct values.
C1_Witness ==
  /\ pc = "built"
  /\ nEmits = NSpins
  /\ config[Alpha].cardinality = 10
  /\ Cardinality(vmap) = 100

\* The static values of the tests: Field.Value "constant_keyword", and the
\* configuration values beta, 33 and true.
FieldValues == {NoValue, StrValue(<<"constant_keyword">>)}
ConfigValues == {NoValue, StrValue(<<"beta">>), NumValue(33), BoolValue(TRUE)}

InitStatic ==
  /\ HarnessInit
  /\ template = AlphaTemplate(FALSE)
  /\ \E ty \in SupportedTypes, fv \in FieldValues, cv \in ConfigValues,
        c \in Cardinalities \cup {0}, r \in {0, CardinalityRange} :
       /\ fields = <<Field(Alpha, ty, fv)>>
       /\ config \in {Alpha :> CfgEntry(c, r, cv)}
                       \cup (IF c = 0 /\ r = 0 /\ cv = NoValue
                             THEN {NoConfig} ELSE {})
  /\ spins = MaxEmits

SpecStatic == InitStatic /\ [][HarnessNext]_vars

DigitValue(ch) == CHOOSE d \in 0..9 : DigitChar(d) = ch
IsDigit(ch) == \E d \in 0..9 : DigitChar(d) = ch

\* strconv of a run of digits.
RECURSIVE ParseNat(_)
ParseNat(ds) ==
  IF ds = <<>> THEN 0
  ELSE 10 * ParseNat(SubSeq(ds, 1, Len(ds) - 1)) + DigitValue(ds[Len(ds)])

\* unmarshalJSONT of a record {"alpha":<v>}: the value of key alpha.
UnmarshalAlpha(rec) ==
  LET v == SubSeq(rec, 6, Len(rec) - 1)
  IN IF /\ Len(rec) >= 7
        /\ SubSeq(rec, 1, 5) = <<"{", "\"", "alpha", "\"", ":">>
        /\ rec[Len(rec)] = "}"
     THEN CASE Len(v) >= 2 /\ v[1] = "\"" /\ v[Len(v)] = "\"" ->
                 StrValue(SubSeq(v, 2, Len(v) - 1))
            [] v = <<"true">> -> BoolValue(TRUE)
            [] v = <<"false">> -> BoolValue(FALSE)
            [] \A i \in 1..Len(v) : IsDigit(v[i]) -> NumValue(ParseNat(v))
            [] OTHER -> BadValue
     ELSE BadValue

NewGenerator(cfg, location) ==
  [gc |-> [config |-> cfg, fs |-> "fs", location |-> location,
           templateType |-> templateTypeCustom, timestamp |-> "time.Now"],
   err |-> NoErr]

\* A constructor that falls back to the custom parser for an unknown selector.
NewGeneratorWithTemplateLenient(cfg, location, templateType) ==
  [gc |-> [config |-> cfg, fs |-> "fs", location |-> location,
           templateType |-> IF templateType = "gotext" THEN templateTypeGoText
                            ELSE templateTypeCustom,
           timestamp |-> "time.Now"],
   err |-> NoErr]

NewGeneratorWithTemplate(cfg, location, templateType) ==
  IF templateType = "placeholder"
  THEN [gc |-> [config |-> cfg, fs |-> "fs", location |-> location,
                templateType |-> templateTypeCustom, timestamp |-> "time.Now"],
        err |-> NoErr]
  ELSE IF templateType = "gotext"
  THEN [gc |-> [config |-> cfg, fs |-> "fs", location |-> location,
                templateType |-> templateTypeGoText, timestamp |-> "time.Now"],
        err |-> NoErr]
  ELSE [gc |-> ZeroGeneratorCorpus, err |-> ErrNotValidTemplate]

\* strings.Replace of " ", ":", "/" and "\" by "-".
sanitizeFilename(s) ==
  [i \in 1..Len(s) |-> IF s[i] \in {" ", ":", "/", "\\"} THEN "-" ELSE s[i]]

bulkPayloadFilename(ts, integrationPackage, dataStream, packageVersion) ==
  Digits(ts) \o <<"-">>
    \o sanitizeFilename(integrationPackage \o <<"-">> \o dataStream \o <<"-">>
                          \o packageVersion)
    \o <<".ndjson">>

LastIndex(s, ch) ==
  IF \E i \in 1..Len(s) : s[i] = ch
  THEN CHOOSE i \in 1..Len(s) : s[i] = ch /\ \A j \in (i + 1)..Len(s) : s[j] # ch
  ELSE 0

\* path.Base and path.Ext of a path without trailing slashes.
PathBase(p) == IF p = <<>> THEN <<".">> ELSE SubSeq(p, LastIndex(p, "/") + 1, Len(p))
PathExt(p) ==
  IF LastIndex(p, ".") > LastIndex(p, "/")
  THEN SubSeq(p, LastIndex(p, "."), Len(p)) ELSE <<>>

bulkPayloadFilenameWithTemplate(ts, templatePath) ==
  LET ext == PathExt(templatePath)
      slug == SubSeq(PathBase(templatePath), 1,
                     Len(PathBase(templatePath)) - Len(ext))
  IN Digits(ts) \o <<"-">> \o sanitizeFilename(slug) \o sanitizeFilename(ext)

\* path.Join(location, filename).
PathJoin(location, filename) == location \o <<"/">> \o filename

\* The bulk "create" line Generate puts before every record.
CreatePayloadOf(integrationPackage, dataStream) ==
  <<"{ \"create\" : { \"_index\": \"metrics-">> \o integrationPackage \o <<".">>
    \o dataStream \o <<"-default\" } }", "\n">>

\* The generator eventsPayloadFromFields constructs (or its error).
ConstructGenerator(g, tpl, flds) ==
  IF Len(tpl) = 0 THEN NewGeneratorNoTemplate(g.config, flds)
  ELSE IF g.templateType = templateTypeCustom
  THEN NewGeneratorWithCustomTemplate(tpl, g.config, flds)
  ELSE IF g.templateType = templateTypeGoText
  THEN NewGeneratorWithTextTemplate(tpl, g.config, flds)
  ELSE [gen |-> NoGen, err |-> ErrNotValidTemplate]

\* The construction's error left unchecked.
ConstructionFailedIgnored(err) == FALSE

\* "if err != nil { return err }" after the construction.
ConstructionFailed(err) == err # NoErr

\* A loop that runs once more when the budget is exactly met.
LoopContinuesInclusive(cur, tot) == cur <= tot

\* The loop condition of eventsPayloadFromFields.
LoopContinues(cur, tot) == cur < tot

\* A truncation that leaves the buffer as it is.
TruncateKeeps(b, n) == b

\* bytes.Buffer.Truncate(n): all but the first n bytes are discarded.
Truncate(b, n) == SubSeq(b, 1, n)

\* Truncate panics when n is greater than the buffer's length.
TruncatePanics(b, n) == n > Len(b)

\* An Emit whose error is not looked at.
EmitFailedIgnored(err) == FALSE

\* "if err := evgen.Emit(state, buf); err != nil { return err }".
EmitFailed(err) == err # NoErr

\* A driver that appends nothing after the record.
NoNewline == <<>>

\* buf.WriteByte('\n'): what the driver appends to every record.
Newline == <<"\n">>

\* Generator.Close: the text-template backend may fail to release.
CloseOutcomes(gen) ==
  IF gen.kind = "gotext" THEN {NoErr, "CloseError"} ELSE {NoErr}

\* The whole of a generation up to the loop of eventsPayloadFromFields: the
\* file is created or truncated, the fields are loaded (io tells which step
\* fails, if any), and eventsPayloadFromFields constructs its generator.
EnterGeneration(who, path, io, tpl, flds, tot, cp) ==
  LET early == io \in {"parse", "mkdir", "open"}
      opens == ~early
      loaded == io = "ok"
      r == IF loaded THEN ConstructGenerator(gc, tpl, flds)
           ELSE [gen |-> NoGen, err |-> NoErr]
      enters == loaded /\ ~ConstructionFailed(r.err)
  IN /\ via' = who
     /\ files' = IF opens THEN (path :> <<>>) @@ files ELSE files
     /\ opened' = IF opens THEN Append(opened, [path |-> path, via |-> who])
                  ELSE opened
     /\ fname' = IF opens THEN path ELSE <<>>
     /\ template' = IF loaded THEN tpl ELSE <<>>
     /\ fields' = IF loaded THEN flds ELSE <<>>
     /\ totSize' = IF loaded THEN tot ELSE 0
     /\ createPayload' = IF loaded THEN cp ELSE <<>>
     /\ evgen' = r.gen
     /\ genErr' = r.err
     /\ state' = NewGenState
     /\ buf' = IF loaded /\ Len(tpl) = 0 THEN cp ELSE <<>>
     /\ currentSize' = 0
     /\ nEmits' = 0
     /\ nWrites' = 0
     /\ sizes' = <<>>
     /\ emitErr' = NoErr
     /\ closed' = FALSE
     /\ pc' = IF enters THEN "loop" ELSE "ready"
     /\ ret' = IF enters THEN NoRet
               ELSE IF ~loaded THEN [path |-> <<>>, err |-> io, events |-> "none"]
               ELSE [path |-> <<>>, err |-> r.err, events |-> r.err]
     /\ UNCHANGED <<config, ctor, gc, gcErr, clock, limits>>
     /\ UNCHANGED hvars

\* ---------------------------------------------------------- driver's inputs

Location == <<"testdata">>
Selectors == {"placeholder", "gotext", "", "Placeholder", "handlebars"}
Packages == {<<"a", "/", "b">>, <<"a", "-", "b">>}
DataStreams == {<<"d">>}
Versions == {<<"1">>}
TemplatePaths == {<<"t", ".", "tpl">>, <<"d", "/", "t", ".", "tpl">>}

\* Field b has the configured value 7; field a is drawn at random.
DriverConfigs == {NameB :> CfgEntry(0, 0, NumValue(7))}

DriverFieldLists ==
  {<<>>,
   <<Field(NameA, "keyword", NoValue)>>,
   <<Field(NameA, "keyword", NoValue), Field(NameB, "integer", NoValue)>>,
   <<Field(NameA, "keyword", BadValue)>>}

\* What os.ReadFile may return for the template file.
DriverTemplates ==
  {<<>>, <<"x">>, <<"{", "{", ".", "a", "}", "}">>,
   <<"{", "{", ".", "b", "}", "}", "y">>, <<TextComment>>}

\* The step of Generate that fails, if any.
GenerateOutcomes == {"ok", "parse", "mkdir", "open", "load"}
GenerateWithTemplateOutcomes == {"ok", "parse", "mkdir", "open", "read", "load"}

\* ---------------------------------------------------------- driver's actions

CallNewGenerator ==
  /\ pc = "new"
  /\ LET r == NewGenerator(config, Location)
     IN /\ gc' = r.gc
        /\ gcErr' = r.err
        /\ pc' = IF r.err = NoErr THEN "ready" ELSE "rejected"
  /\ ctor' = [name |-> "NewGenerator", templateType |-> ""]
  /\ UNCHANGED <<template, fields, config, evgen, genErr, state, emitErr,
                 nEmits, clock, files, opened, via, totSize, createPayload,
                 buf, currentSize, fname, nWrites, sizes, closed, ret, limits>>
  /\ UNCHANGED hvars

CallNewGeneratorWithTemplate ==
  /\ pc = "new"
  /\ \E sel \in Selectors :
       LET r == NewGeneratorWithTemplate(config, Location, sel)
       IN /\ gc' = r.gc
          /\ gcErr' = r.err
          /\ pc' = IF r.err = NoErr THEN "ready" ELSE "rejected"
          /\ ctor' = [name |-> "NewGeneratorWithTemplate", templateType |-> sel]
  /\ UNCHANGED <<template, fields, config, evgen, genErr, state, emitErr,
                 nEmits, clock, files, opened, via, totSize, createPayload,
                 buf, currentSize, fname, nWrites, sizes, closed, ret, limits>>
  /\ UNCHANGED hvars

\* A second passes before a generation (the clock is read only when one
\* starts).
Tick ==
  /\ pc = "ready"
  /\ Len(opened) < limits.gens
  /\ clock < TestTimestamp + MaxClock
  /\ clock' = clock + 1
  /\ UNCHANGED <<pc, template, fields, config, evgen, genErr, state, emitErr,
                 nEmits, ctor, gc, gcErr, files, opened, via, totSize,
                 createPayload, buf, currentSize, fname, nWrites, sizes,
                 closed, ret, limits>>
  /\ UNCHANGED hvars

\* Generate, up to the loop of eventsPayloadFromFields.
Generate ==
  /\ pc = "ready"
  /\ Len(opened) < limits.gens
  /\ \E integrationPackage \in Packages, dataStream \in DataStreams,
        packageVersion \in Versions, io \in GenerateOutcomes :
     \E tot \in IF io = "ok" THEN 0..limits.tot ELSE {0},
        flds \in IF io = "ok" THEN DriverFieldLists ELSE {<<>>} :
       EnterGeneration("Generate",
                       PathJoin(gc.location,
                                bulkPayloadFilename(clock, integrationPackage,
                                                    dataStream, packageVersion)),
                       io, <<>>, flds, tot,
                       CreatePayloadOf(integrationPackage, dataStream))

\* GenerateWithTemplate, up to the loop of eventsPayloadFromFields.
GenerateWithTemplate ==
  /\ pc = "ready"
  /\ Len(opened) < limits.gens
  /\ \E templatePath \in TemplatePaths, io \in GenerateWithTemplateOutcomes :
     \E tot \in IF io = "ok" THEN 0..limits.tot ELSE {0},
        tpl \in IF io = "ok" THEN DriverTemplates ELSE {<<>>},
        flds \in IF io = "ok" THEN DriverFieldLists ELSE {<<>>} :
       EnterGeneration("GenerateWithTemplate",
                       PathJoin(gc.location,
                                bulkPayloadFilenameWithTemplate(clock, templatePath)),
                       IF io = "ok" /\ Len(tpl) = 0 THEN "empty" ELSE io,
                       tpl, flds, tot, <<>>)

\* One iteration of the loop: truncate the buffer to createPayload, Emit one
\* record, append the newline, write the buffer to the file, count its bytes.
\* w tells whether the file write fails, and after how many bytes.
LoopIteration ==
  /\ pc = "loop"
  /\ LoopContinues(currentSize, totSize)
  /\ IF TruncatePanics(buf, Len(createPayload))
     THEN /\ pc' = "panic"
          /\ UNCHANGED <<buf, state, emitErr, nEmits, files, currentSize,
                         nWrites, sizes, ret>>
     ELSE \E o \in Emit(evgen, gc.config, state), w \in {"ok", "fail", "short"} :
            LET truncated == Truncate(buf, Len(createPayload))
                unit == truncated \o o.out \o Newline
            IN /\ nEmits' = nEmits + 1
               /\ state' = o.st
               /\ emitErr' = o.err
               /\ IF EmitFailed(o.err)
                  THEN /\ buf' = truncated \o o.out
                       /\ ret' = [path |-> <<>>, err |-> o.err, events |-> o.err]
                       /\ pc' = "ready"
                       /\ UNCHANGED <<files, currentSize, nWrites, sizes>>
                  ELSE IF w = "ok"
                  THEN /\ buf' = unit
                       /\ files' = [files EXCEPT ![fname] = @ \o unit]
                       /\ currentSize' = currentSize + Len(unit)
                       /\ nWrites' = nWrites + 1
                       /\ sizes' = Append(sizes, Len(unit))
                       /\ UNCHANGED <<pc, ret>>
                  ELSE /\ buf' = unit
                       /\ files' = [files EXCEPT ![fname] =
                                      @ \o (IF w = "short"
                                            THEN SubSeq(unit, 1, Len(unit) - 1)
                                            ELSE <<>>)]
                       /\ ret' = [path |-> <<>>, err |-> WriteError,
                                   events |-> WriteError]
                       /\ pc' = "ready"
                       /\ UNCHANGED <<currentSize, nWrites, sizes>>
  /\ UNCHANGED <<template, fields, config, evgen, genErr, ctor, gc, gcErr,
                 clock, opened, via, totSize, createPayload, fname, closed,
                 limits>>
  /\ UNCHANGED hvars

\* The budget is met: evgen.Close, then the caller closes the file and
\* returns the path.  fc tells whether closing the file fails.
LoopExit ==
  /\ pc = "loop"
  /\ ~LoopContinues(currentSize, totSize)
  /\ closed' = TRUE
  /\ \E ce \in CloseOutcomes(evgen), fc \in {NoErr, "CloseFileError"} :
       ret' = IF ce # NoErr THEN [path |-> <<>>, err |-> ce, events |-> ce]
              ELSE IF fc # NoErr THEN [path |-> <<>>, err |-> fc, events |-> NoErr]
              ELSE [path |-> fname, err |-> NoErr, events |-> NoErr]
  /\ pc' = "ready"
  /\ UNCHANGED <<template, fields, config, evgen, genErr, state, emitErr,
                 nEmits, ctor, gc, gcErr, clock, files, opened, via, totSize,
                 createPayload, buf, currentSize, fname, nWrites, sizes,
                 limits>>
  /\ UNCHANGED hvars

Next ==
  \/ CallNewGenerator
  \/ CallNewGeneratorWithTemplate
  \/ Tick
  \/ Generate
  \/ GenerateWithTemplate
  \/ LoopIteration
  \/ LoopExit

DriverInit ==
  /\ pc = "new"
  /\ DriverIdle
  /\ clock = TestTimestamp
  /\ config \in DriverConfigs
  /\ template = <<>>
  /\ fields = <<>>
  /\ parsed = NoParse
  /\ evgen = NoGen
  /\ genErr = NoErr
  /\ state = NewGenState
  /\ sink = <<>>
  /\ vals = <<>>
  /\ emitErr = NoErr
  /\ nEmits = 0
  /\ vmap = {}
  /\ spins = 0

\* One generation with budgets up to MaxTot.
Init ==
  /\ DriverInit
  /\ limits = [gens |-> 1, tot |-> MaxTot]

Spec == Init /\ [][Next]_vars

\* Up to MaxGens generations with budgets up to MaxTotRepeat.
InitRepeat ==
  /\ DriverInit
  /\ limits = [gens |-> MaxGens, tot |-> MaxTotRepeat]

SpecRepeat == InitRepeat /\ [][Next]_vars

\* ------------------------------------------------------ claims on the driver

\* eventsPayloadFromFields has returned nil.
EventsReturnedNil == pc = "ready" /\ ret.events = NoErr

\* C3: when eventsPayloadFromFields returns without error for a budget of
\* totSize bytes, at least totSize bytes were written to the file and fewer
\* than totSize before the last record; for totSize 0 there is no Emit and no
\* write.
C3_Budget ==
  EventsReturnedNil =>
    /\ Len(files[fname]) >= totSize
    /\ totSize = 0 => nEmits = 0 /\ nWrites = 0 /\ files[fname] = <<>>
    /\ totSize > 0 =>
         /\ nWrites > 0
         /\ nEmits = nWrites
         /\ Len(files[fname]) - sizes[Len(sizes)] < totSize

\* C3 witness: a call returned nil after several records, the last of which
\* took the file past the budget.
C3_Witness ==
  /\ EventsReturnedNil
  /\ nWrites >= 2
  /\ Len(files[fname]) > totSize

\* C5: NewGeneratorWithTemplate succeeds only for "placeholder" (custom parser)
\* and "gotext" (text-template engine) and otherwise returns
\* ErrNotValidTemplate with the zero GeneratorCorpus; NewGenerator always
\* succeeds and selects the custom parser.
C5_TemplateTypeSelector ==
  pc # "new" =>
    /\ ctor.name = "NewGenerator" =>
         gcErr = NoErr /\ gc.templateType = templateTypeCustom
    /\ ctor.name = "NewGeneratorWithTemplate" =>
         /\ gcErr = NoErr <=> ctor.templateType \in {"placeholder", "gotext"}
         /\ ctor.templateType = "placeholder" =>
              gc.templateType = templateTypeCustom
         /\ ctor.templateType = "gotext" => gc.templateType = templateTypeGoText
         /\ gcErr # NoErr =>
              gcErr = ErrNotValidTemplate /\ gc = ZeroGeneratorCorpus
    /\ pc = "rejected" <=> gcErr # NoErr
    /\ (pc = "loop" /\ Len(template) > 0) =>
         evgen.kind = IF ctor.templateType = "gotext" THEN "gotext" ELSE "custom"

\* C5 witness: an unknown selector was rejected.
C5_Witness ==
  /\ pc = "rejected"
  /\ ctor = [name |-> "NewGeneratorWithTemplate", templateType |-> "handlebars"]
  /\ gcErr = ErrNotValidTemplate
  /\ gc = ZeroGeneratorCorpus

\* C8: two generations by Generate get different file names, so a later one
\* never opens and truncates the file of an earlier one.
C8_UniqueNames ==
  \A i, j \in 1..Len(opened) :
    (i # j /\ opened[i].via = "Generate" /\ opened[j].via = "Generate") =>
      opened[i].path # opened[j].path

\* The template references a field that is not declared.
ReferencesUndeclared(t, flds) ==
  \E k \in 1..Len(Starts(t)) :
    PlaceholderName(t, Starts(t)[k]) \notin Names(flds)

\* C9: a template that references an undeclared field makes the construction
\* fail with a configuration error, and eventsPayloadFromFields then returns
\* that error with no Emit performed and no byte written.
C9_UndeclaredField ==
  /\ (ret.events # "none" \/ pc = "loop") =>
       (ReferencesUndeclared(template, fields) => genErr = ConfigurationError)
  /\ genErr # NoErr =>
       /\ pc = "ready"
       /\ ret.events = genErr
       /\ ret.err = genErr
       /\ nEmits = 0
       /\ nWrites = 0
       /\ files[fname] = <<>>

\* C9 witness: the template {{.b}}y with only field a declared was refused.
C9_Witness ==
  /\ pc = "ready"
  /\ template = <<"{", "{", ".", "b", "}", "}", "y">>
  /\ Names(fields) = {NameA}
  /\ genErr = ConfigurationError
  /\ ret.events = ConfigurationError
  /\ nEmits = 0

\* eventsPayloadFromFields has returned an error of Emit or of the file write.
EventsFailedInLoop ==
  pc = "ready" /\ genErr = NoErr /\ ret.events \notin {NoErr, "none"}
    /\ ret.events # "CloseError"

\* C11: in eventsPayloadFromFields the first error of Emit or of the file write
\* is returned to the caller as it is and ends the loop: the step in which
\* Emit fails writes nothing to the file and returns that very error, after a
\* failed Emit or write there is no further Emit and no further write, and the
\* failing iteration was the only one that did not complete.
C11_FirstErrorReturned ==
  /\ [](EventsFailedInLoop =>
          /\ ret.err = ret.events
          /\ nEmits = nWrites + 1
          /\ emitErr # NoErr => ret.events = emitErr /\ Len(files[fname]) = currentSize
          /\ emitErr = NoErr => ret.events = WriteError)
  /\ [][(nEmits' = nEmits + 1 /\ emitErr' # NoErr) =>
          /\ files' = files
          /\ nWrites' = nWrites
          /\ currentSize' = currentSize
          /\ pc' = "ready"
          /\ ret'.events = emitErr']_vars
  /\ [][EventsFailedInLoop =>
          nEmits' = nEmits /\ nWrites' = nWrites /\ files' = files]_vars

\* C11 witness: the first Emit failed after it had put bytes of the record in
\* the buffer; its error was returned and the file is empty.
C11_Witness ==
  /\ EventsFailedInLoop
  /\ emitErr = SynthesisError
  /\ ret.events = SynthesisError
  /\ nEmits = 1
  /\ Len(buf) > Len(createPayload)
  /\ files[fname] = <<>>

\* eventsPayloadFromFields has returned from a call that constructed its
\* generator.
EventsReturnedAfterConstruction ==
  pc = "ready" /\ genErr = NoErr /\ ret.events # "none"

\* C12: every call of eventsPayloadFromFields that constructed a generator has
\* called evgen.Close when it returns, whether it returns nil, the error of an
\* Emit or the error of a file write.
C12_ClosedBeforeReturn == EventsReturnedAfterConstruction => closed

\* The driver with its loop running on: eventsPayloadFromFields is sequential
\* code, so a call that is in its loop takes its next iteration, and one whose
\* budget is met returns.
SpecLoopRuns ==
  Init /\ [][Next]_vars /\ WF_vars(LoopIteration) /\ WF_vars(LoopExit)

\* C13: the loop of eventsPayloadFromFields terminates for every budget: an
\* iteration that stays in the loop has increased currentSize by at least 1,
\* also for a record of zero bytes after an empty createPayload, so a call in
\* its loop eventually returns, and unless an Emit or a write failed it
\* returns with currentSize >= totSize.
C13_LoopTerminates ==
  /\ [][(pc = "loop" /\ pc' = "loop") => currentSize' >= currentSize + 1]_vars
  /\ (pc = "loop") ~>
       (pc = "ready" /\ (EventsFailedInLoop \/ currentSize >= totSize))

\* C13 witness: a call with an empty createPayload whose records were all of
\* zero bytes has returned nil after one iteration per byte of its budget.
C13_Witness ==
  /\ pc = "ready"
  /\ ret.events = NoErr
  /\ createPayload = <<>>
  /\ totSize >= 3
  /\ nWrites = totSize
  /\ \A i \in 1..Len(sizes) : sizes[i] = 1
  /\ currentSize = totSize

\* C14: at every iteration of the loop of eventsPayloadFromFields the file
\* holds one unit createPayload ++ record ++ "\n" per successful iteration and
\* nothing else, currentSize is the number of bytes in the file, the buffer
\* starts with createPayload and is at least as long (so the truncation never
\* exceeds it and cuts it back to exactly createPayload), createPayload is
\* empty on the template path, and a successful iteration appends to the file
\* exactly createPayload, the record this Emit rendered and a newline.
C14_UnitsInFile ==
  /\ [](pc # "panic")
  /\ [](pc = "loop" =>
          /\ currentSize = Len(files[fname])
          /\ Len(sizes) = nWrites
          /\ nWrites = 0 => files[fname] = <<>>
          /\ Len(createPayload) <= Len(buf)
          /\ SubSeq(buf, 1, Len(createPayload)) = createPayload
          /\ via = "GenerateWithTemplate" => createPayload = <<>>)
  /\ [][nWrites' = nWrites + 1 =>
          \E o \in Emit(evgen, gc.config, state) :
            /\ o.err = NoErr
            /\ state' = o.st
            /\ buf' = createPayload \o o.out \o <<"\n">>
            /\ files'[fname] = files[fname] \o createPayload \o o.out \o <<"\n">>
            /\ currentSize' = currentSize + Len(createPayload) + Len(o.out) + 1
            /\ sizes' = Append(sizes, Len(createPayload) + Len(o.out) + 1)]_vars

\* C14 witness: on the template path two different records were written one
\* after the other, and the file holds just the two of them.
C14_Witness ==
  /\ pc = "loop"
  /\ via = "GenerateWithTemplate"
  /\ nWrites = 2
  /\ files[fname] = <<"word", "0", "\n", "word", "1", "\n">>
  /\ currentSize = 6

====
